---- MODULE Spec2Model ----
(***************************************************************************)
(* Model of solar_feasibility_app.py: the NASA POWER fetch, the reverse    *)
(* geocoder, build_solar_profile, classify_solar_resource,                 *)
(* estimate_pv_yield_and_financials, generate_pdf_report and the           *)
(* "Run feasibility" handler of main.                                      *)
(*                                                                         *)
(* Python floats are modelled as binary floating-point numbers m * 2^e     *)
(* with an FPrec-bit significand, rounded to nearest (ties to even) after  *)
(* every operation, plus the value nan.  Exponents are unbounded: overflow *)
(* to inf, underflow and signed zeros are outside the model.               *)
(***************************************************************************)
EXTENDS Integers, Sequences, FiniteSets, TLC

\* Number of significand bits of the modelled float (53 in CPython).
FPrec == 11

----------------------------------------------------------------------------
(* Floating-point arithmetic                                               *)

Abs(i) == IF i < 0 THEN -i ELSE i

Sgn(i) == IF i < 0 THEN -1 ELSE 1

RECURSIVE Pow2(_)
Pow2(k) == IF k <= 0 THEN 1 ELSE 2 * Pow2(k - 1)

RECURSIVE Pow10(_)
Pow10(k) == IF k <= 0 THEN 1 ELSE 10 * Pow10(k - 1)

RECURSIVE BitLen(_)
BitLen(a) == IF a = 0 THEN 0 ELSE 1 + BitLen(a \div 2)

\* float("nan")
NaN == [nan |-> TRUE, m |-> 0, e |-> 0]

\* The float m * 2^e in canonical form (m odd, or m = e = 0).
RECURSIVE Canon(_, _)
Canon(m, e) ==
    IF m = 0 THEN [nan |-> FALSE, m |-> 0, e |-> 0]
    ELSE IF Abs(m) % 2 = 0 THEN Canon(Sgn(m) * (Abs(m) \div 2), e + 1)
    ELSE [nan |-> FALSE, m |-> m, e |-> e]

\* Round s * (a + f) * 2^e to FPrec bits, nearest-even; f = 0 unless sticky,
\* in which case 0 < f < 1 and a has more than FPrec bits.
FRound(s, a, e, sticky) ==
    LET k == BitLen(a) - FPrec IN
    IF k <= 0 THEN Canon(s * a, e)
    ELSE LET q    == a \div Pow2(k)
             rem  == a % Pow2(k)
             half == Pow2(k - 1)
             up   == rem > half \/ (rem = half /\ (sticky \/ q % 2 = 1))
         IN  Canon(s * (q + (IF up THEN 1 ELSE 0)), e + k)

\* Correctly rounded s * (num / den) * 2^e for integers num >= 0, den > 0.
FQuot(s, num, den, e) ==
    IF num = 0 THEN Canon(0, 0)
    ELSE LET sh == FPrec + 2 + BitLen(den) - BitLen(num)
             n2 == IF sh >= 0 THEN num * Pow2(sh) ELSE num
             d2 == IF sh >= 0 THEN den ELSE den * Pow2(-sh)
         IN  FRound(s, n2 \div d2, e - sh, (n2 % d2) # 0)

\* float(n) for an integer n
FInt(n) == FRound(Sgn(n), Abs(n), 0, FALSE)

\* The float literal num/den (a decimal literal such as 4.6 = 46/10).
FLit(num, den) == FQuot(Sgn(num), Abs(num), den, 0)

FNeg(x) == IF x.nan THEN NaN ELSE Canon(-x.m, x.e)

\* x * y
FMul(x, y) ==
    IF x.nan \/ y.nan THEN NaN
    ELSE FRound(Sgn(x.m) * Sgn(y.m), Abs(x.m) * Abs(y.m), x.e + y.e, FALSE)

\* x / y for y # 0 (Python raises ZeroDivisionError when y = 0: the callers
\* test the divisor first).
FDiv(x, y) ==
    IF x.nan \/ y.nan THEN NaN
    ELSE FQuot(Sgn(x.m) * Sgn(y.m), Abs(x.m), Abs(y.m), x.e - y.e)

\* x + y
FAdd(x, y) ==
    IF x.nan \/ y.nan THEN NaN
    ELSE IF x.m = 0 THEN y
    ELSE IF y.m = 0 THEN x
    ELSE LET hi == IF x.e >= y.e THEN x ELSE y
             lo == IF x.e >= y.e THEN y ELSE x
             d  == hi.e - lo.e
             g  == FPrec + 2
         IN  IF d <= g
             THEN LET t == hi.m * Pow2(d) + lo.m
                  IN  FRound(Sgn(t), Abs(t), lo.e, FALSE)
             ELSE LET sh   == d - g
                      lo2  == IF sh >= FPrec THEN 0 ELSE Abs(lo.m) \div Pow2(sh)
                      st   == IF sh >= FPrec THEN TRUE
                              ELSE (Abs(lo.m) % Pow2(sh)) # 0
                      same == Sgn(hi.m) = Sgn(lo.m)
                      t    == IF same THEN Abs(hi.m) * Pow2(g) + lo2
                              ELSE Abs(hi.m) * Pow2(g) - lo2
                                   - (IF st THEN 1 ELSE 0)
                  IN  FRound(Sgn(hi.m), t, hi.e - g, st)

\* x - y
FSub(x, y) == FAdd(x, FNeg(y))

\* Comparisons; every comparison with nan is False.
FLt(x, y) == ~x.nan /\ ~y.nan /\ FSub(x, y).m < 0

FGt(x, y) == FLt(y, x)

FGe(x, y) == ~x.nan /\ ~y.nan /\ FSub(x, y).m >= 0

FLe(x, y) == FGe(y, x)

\* math.isfinite(x)
IsFinite(x) == ~x.nan

\* x ** n for an integer n >= 0, by repeated multiplication
RECURSIVE FPowNat(_, _)
FPowNat(x, n) == IF n = 0 THEN FInt(1) ELSE FMul(FPowNat(x, n - 1), x)

----------------------------------------------------------------------------
(* Python values                                                           *)

\* The outcome of a call: the exception raised ("none" when it returns) and
\* the value returned.
Returned(v) == [exc |-> "none", value |-> v]

Raised(exc, nothing) == [exc |-> exc, value |-> nothing]

\* Decoded JSON: a dict is a sequence of <<key, value>> pairs in document
\* order, a list a sequence of values.
JDict(pairs) == [t |-> "dict", items |-> pairs, num |-> NaN, str |-> ""]

JList(elems) == [t |-> "list", items |-> elems, num |-> NaN, str |-> ""]

JNum(x) == [t |-> "num", items |-> <<>>, num |-> x, str |-> ""]

JStr(x) == [t |-> "str", items |-> <<>>, num |-> NaN, str |-> x]

\* null in JSON, None in Python
JNull == [t |-> "null", items |-> <<>>, num |-> NaN, str |-> ""]

\* isinstance(node, dict)
IsDict(node) == node.t = "dict"

\* set(node.keys())
Keys(node) == {node.items[i][1] : i \in 1..Len(node.items)}

\* key in node
HasKey(node, key) == key \in Keys(node)

\* node[key]
Item(node, key) ==
    node.items[CHOOSE i \in 1..Len(node.items) : node.items[i][1] = key][2]

\* node.get(key), None when the key is absent
GetOrNone(node, key) == IF HasKey(node, key) THEN Item(node, key) ELSE JNull

\* bool(node)
Truthy(node) ==
    CASE node.t = "null" -> FALSE
      [] node.t = "str"  -> node.str # ""
      [] node.t = "num"  -> node.num.nan \/ node.num.m # 0
      [] OTHER           -> Len(node.items) > 0

\* What the HTTP exchange gave: transport is "ok" or the exception raised by
\* requests.get, status the HTTP status, json_ok whether the body decodes,
\* data the decoded body.
HttpResponse(transport, status, json_ok, data) ==
    [transport |-> transport, status |-> status, json_ok |-> json_ok,
     data |-> data]

\* requests.get(...); resp.raise_for_status(); data = resp.json()
HttpGetJson(resp) ==
    IF resp.transport # "ok" THEN Raised(resp.transport, JNull)
    ELSE IF resp.status >= 400 THEN Raised("HTTPError", JNull)
    ELSE IF ~resp.json_ok THEN Raised("JSONDecodeError", JNull)
    ELSE Returned(resp.data)

----------------------------------------------------------------------------
(* NASA POWER API integration                                              *)

NASA_PARAM == "ALLSKY_SFC_SW_DWN"

\* month_keys of find_monthly_param, months of get_nasa_ghi_climatology
NasaMonths == <<"JAN", "FEB", "MAR", "APR", "MAY", "JUN",
                "JUL", "AUG", "SEP", "OCT", "NOV", "DEC">>

NasaMonthKeys == {NasaMonths[i] : i \in 1..Len(NasaMonths)}

\* The result of find_monthly_param: the block found, or None
Found(block) == [found |-> TRUE, block |-> block]

NotFound == [found |-> FALSE, block |-> JNull]

\* isinstance(maybe, dict) and month_keys.issubset(set(maybe.keys()))
IsMonthlyBlock(maybe) == IsDict(maybe) /\ NasaMonthKeys \subseteq Keys(maybe)

\* The three places where find_monthly_param looks for the block in a dict
DirectBlock(node, param_name) ==
    IF HasKey(node, param_name) /\ IsMonthlyBlock(Item(node, param_name))
    THEN Found(Item(node, param_name)) ELSE NotFound

ParametersBlock(node, param_name) ==
    IF /\ HasKey(node, "parameters")
       /\ IsDict(Item(node, "parameters"))
       /\ HasKey(Item(node, "parameters"), param_name)
       /\ IsMonthlyBlock(Item(Item(node, "parameters"), param_name))
    THEN Found(Item(Item(node, "parameters"), param_name)) ELSE NotFound

PropertiesBlock(node, param_name) ==
    IF /\ HasKey(node, "properties")
       /\ IsDict(Item(node, "properties"))
       /\ HasKey(Item(node, "properties"), "parameter")
       /\ IsDict(Item(Item(node, "properties"), "parameter"))
       /\ HasKey(Item(Item(node, "properties"), "parameter"), param_name)
       /\ IsMonthlyBlock(Item(Item(Item(node, "properties"), "parameter"),
                              param_name))
    THEN Found(Item(Item(Item(node, "properties"), "parameter"), param_name))
    ELSE NotFound

RECURSIVE find_monthly_param(_, _)
RECURSIVE FindInValues(_, _, _, _)

\* for v in values: found = find_monthly_param(v); return the first found
FindInValues(values, isDict, i, param_name) ==
    IF i > Len(values) THEN NotFound
    ELSE LET v     == IF isDict THEN values[i][2] ELSE values[i]
             found == find_monthly_param(v, param_name)
         IN  IF found.found THEN found
             ELSE FindInValues(values, isDict, i + 1, param_name)

find_monthly_param(node, param_name) ==
    IF IsDict(node)
    THEN IF DirectBlock(node, param_name).found
         THEN DirectBlock(node, param_name)
         ELSE IF ParametersBlock(node, param_name).found
         THEN ParametersBlock(node, param_name)
         ELSE IF PropertiesBlock(node, param_name).found
         THEN PropertiesBlock(node, param_name)
         ELSE FindInValues(node.items, TRUE, 1, param_name)
    ELSE IF node.t = "list"
    THEN FindInValues(node.items, FALSE, 1, param_name)
    ELSE NotFound

\* No mapping
NoGhi == [k \in {} |-> NaN]

\* float(v) of a JSON value (the strings of the responses here are no numerals)
FloatOf(v) ==
    IF v.t = "num" THEN Returned(v.num)
    ELSE IF v.t = "str" THEN Raised("ValueError", NaN)
    ELSE Raised("TypeError", NaN)

\* {m: float(param_block[m]) for m in months}
MonthlyDict(param_block) ==
    IF \E i \in 1..Len(NasaMonths) : ~HasKey(param_block, NasaMonths[i])
    THEN Raised("KeyError", NoGhi)
    ELSE IF \E i \in 1..Len(NasaMonths) :
                FloatOf(Item(param_block, NasaMonths[i])).exc # "none"
    THEN LET i == CHOOSE j \in 1..Len(NasaMonths) :
                    /\ FloatOf(Item(param_block, NasaMonths[j])).exc # "none"
                    /\ \A h \in 1..(j - 1) :
                         FloatOf(Item(param_block, NasaMonths[h])).exc = "none"
         IN  Raised(FloatOf(Item(param_block, NasaMonths[i])).exc, NoGhi)
    ELSE Returned([m \in NasaMonthKeys |-> FloatOf(Item(param_block, m)).value])

\* The function for the response resp of the NASA POWER server
get_nasa_ghi_climatology(resp) ==
    LET got == HttpGetJson(resp) IN
    IF got.exc # "none" THEN Raised(got.exc, NoGhi)
    ELSE LET param_block == find_monthly_param(got.value, NASA_PARAM)
         IN  IF ~param_block.found THEN Raised("ValueError", NoGhi)
             ELSE MonthlyDict(param_block.block)

----------------------------------------------------------------------------
(* Reverse geocoding for the location name                                 *)

\* address.get("city") or address.get("town") or ... or address.get("state")
RECURSIVE FirstTruthy(_, _, _)
FirstTruthy(address, keys, i) ==
    IF i = Len(keys) THEN GetOrNone(address, keys[i])
    ELSE IF Truthy(GetOrNone(address, keys[i]))
    THEN GetOrNone(address, keys[i])
    ELSE FirstTruthy(address, keys, i + 1)

PlaceKeys == <<"city", "town", "village", "municipality", "county", "state">>

\* str(node) inside an f-string, for the values that occur as a country
StrOf(node) == IF node.t = "str" THEN node.str ELSE "<" \o node.t \o ">"

\* The body of the try block of reverse_geocode_city
GeocodeBody(resp) ==
    LET got == HttpGetJson(resp) IN
    IF got.exc # "none" THEN Raised(got.exc, JNull)
    ELSE IF ~IsDict(got.value) THEN Raised("AttributeError", JNull)
    ELSE LET data == got.value
             raw  == IF HasKey(data, "address") THEN Item(data, "address")
                     ELSE JDict(<<>>)
             address == IF Truthy(raw) THEN raw ELSE JDict(<<>>)
         IN  IF ~IsDict(address) THEN Raised("AttributeError", JNull)
             ELSE LET city    == FirstTruthy(address, PlaceKeys, 1)
                      country == GetOrNone(address, "country")
                  IN  IF Truthy(city) /\ city.t = "str"
                      THEN IF Truthy(country)
                           THEN Returned(JStr(city.str \o ", "
                                                 \o StrOf(country)))
                           ELSE Returned(city)
                      ELSE Returned(country)

\* Mutant of reverse_geocode_city: no except clause.
reverse_geocode_city_NoCatch(resp) == GeocodeBody(resp)

\* try: ... except Exception: return None
reverse_geocode_city(resp) ==
    IF GeocodeBody(resp).exc # "none" THEN Returned(JNull)
    ELSE GeocodeBody(resp)

----------------------------------------------------------------------------
(* Core feasibility logic                                                  *)

MONTH_NAMES == <<"Jan", "Feb", "Mar", "Apr", "May", "Jun",
                 "Jul", "Aug", "Sep", "Oct", "Nov", "Dec">>

\* Mutant of MONTH_DAYS: February of a leap year.
MONTH_DAYS_Leap == <<31, 29, 31, 30, 31, 30, 31, 31, 30, 31, 30, 31>>

MONTH_DAYS == <<31, 28, 31, 30, 31, 30, 31, 31, 30, 31, 30, 31>>

\* m_short[:3].upper()
NasaKey(m_short) ==
    CASE m_short = "Jan" -> "JAN" [] m_short = "Feb" -> "FEB"
      [] m_short = "Mar" -> "MAR" [] m_short = "Apr" -> "APR"
      [] m_short = "May" -> "MAY" [] m_short = "Jun" -> "JUN"
      [] m_short = "Jul" -> "JUL" [] m_short = "Aug" -> "AUG"
      [] m_short = "Sep" -> "SEP" [] m_short = "Oct" -> "OCT"
      [] m_short = "Nov" -> "NOV" [] m_short = "Dec" -> "DEC"

\* No DataFrame (the Python name is unbound or the call raised).
NoDF == [none |-> TRUE, rows |-> <<>>,
         annual_ghi_horizontal |-> NaN, annual_ghi_poa |-> NaN]

\* Mutant of Lookup: a missing key reads as 0.0 (dict.get with a default).
Lookup_Default(ghi, nasa_key) ==
    IF nasa_key \in DOMAIN ghi THEN Returned(ghi[nasa_key])
    ELSE Returned(FInt(0))

\* ghi_daily_kwh_per_m2[nasa_key]
Lookup(ghi, nasa_key) ==
    IF nasa_key \in DOMAIN ghi THEN Returned(ghi[nasa_key])
    ELSE Raised("KeyError", NaN)

\* One row of the DataFrame
ProfileRow(m_short, days, daily_horiz, monthly_horiz, monthly_poa) ==
    [Month |-> m_short, Days |-> days, GHI_horizontal_day |-> daily_horiz,
     GHI_horizontal_month |-> monthly_horiz, GHI_POA_month |-> monthly_poa]

\* Mutant of ProfileLoop: the annual totals are decremented (-= for +=).
RECURSIVE ProfileLoop_Subtract(_, _, _, _, _, _)
ProfileLoop_Subtract(ghi, tilt_gain_factor, i, rows, annual_h, annual_poa) ==
    IF i > Len(MONTH_NAMES)
    THEN Returned([none |-> FALSE, rows |-> rows,
                   annual_ghi_horizontal |-> annual_h,
                   annual_ghi_poa |-> annual_poa])
    ELSE LET m_short  == MONTH_NAMES[i]
             nasa_key == NasaKey(m_short)
             item     == Lookup(ghi, nasa_key)
         IN  IF item.exc # "none"
             THEN Raised(item.exc, NoDF)
             ELSE LET daily_horiz   == item.value
                      days          == MONTH_DAYS[i]
                      monthly_horiz == FMul(daily_horiz, FInt(days))
                      monthly_poa   == FMul(monthly_horiz, tilt_gain_factor)
                  IN  ProfileLoop_Subtract(ghi, tilt_gain_factor, i + 1,
                          Append(rows, ProfileRow(m_short, days, daily_horiz,
                                                  monthly_horiz, monthly_poa)),
                          FSub(annual_h, monthly_horiz),
                          FSub(annual_poa, monthly_poa))

\* The body of the for loop of build_solar_profile, from month i on.
RECURSIVE ProfileLoop(_, _, _, _, _, _)
ProfileLoop(ghi, tilt_gain_factor, i, rows, annual_h, annual_poa) ==
    IF i > Len(MONTH_NAMES)
    THEN Returned([none |-> FALSE, rows |-> rows,
                   annual_ghi_horizontal |-> annual_h,
                   annual_ghi_poa |-> annual_poa])
    ELSE LET m_short  == MONTH_NAMES[i]
             nasa_key == NasaKey(m_short)
             item     == Lookup(ghi, nasa_key)
         IN  IF item.exc # "none"
             THEN Raised(item.exc, NoDF)
             ELSE LET daily_horiz   == item.value
                      days          == MONTH_DAYS[i]
                      monthly_horiz == FMul(daily_horiz, FInt(days))
                      monthly_poa   == FMul(monthly_horiz, tilt_gain_factor)
                  IN  ProfileLoop(ghi, tilt_gain_factor, i + 1,
                          Append(rows, ProfileRow(m_short, days, daily_horiz,
                                                  monthly_horiz, monthly_poa)),
                          FAdd(annual_h, monthly_horiz),
                          FAdd(annual_poa, monthly_poa))

build_solar_profile(ghi_daily_kwh_per_m2, tilt_gain_factor) ==
    ProfileLoop(ghi_daily_kwh_per_m2, tilt_gain_factor, 1, <<>>,
                FInt(0), FInt(0))

\* Mutant of classify_solar_resource: strict comparisons.
classify_solar_resource_Strict(annual_poa_kwh_m2) ==
    IF FGt(annual_poa_kwh_m2, FInt(2200))
    THEN "Excellent solar resource (top tier for utility-scale PV)."
    ELSE IF FGt(annual_poa_kwh_m2, FInt(1800))
    THEN "Good solar resource suitable for most PV projects."
    ELSE IF FGt(annual_poa_kwh_m2, FInt(1400))
    THEN "Moderate solar resource; economics more sensitive to capex and tariff."
    ELSE "Lower solar resource; PV may still work with strong incentives or high tariffs."

classify_solar_resource(annual_poa_kwh_m2) ==
    IF FGe(annual_poa_kwh_m2, FInt(2200))
    THEN "Excellent solar resource (top tier for utility-scale PV)."
    ELSE IF FGe(annual_poa_kwh_m2, FInt(1800))
    THEN "Good solar resource suitable for most PV projects."
    ELSE IF FGe(annual_poa_kwh_m2, FInt(1400))
    THEN "Moderate solar resource; economics more sensitive to capex and tariff."
    ELSE "Lower solar resource; PV may still work with strong incentives or high tariffs."

\* No result dict
NoResults ==
    [none |-> TRUE, annual_kwh_per_kwp |-> NaN, annual_energy_kwh |-> NaN,
     total_capex |-> NaN, effective_capex |-> NaN, annual_om |-> NaN,
     annual_revenue |-> NaN, annual_net_cashflow |-> NaN,
     simple_payback_years |-> NaN, lcoe_no_subsidy |-> NaN,
     lcoe_with_subsidy |-> NaN, capacity_factor |-> NaN,
     annual_ghg_savings_tco2 |-> NaN, cars_equiv |-> NaN,
     forest_ha_equiv |-> NaN, emission_factor_kg_per_kwh |-> NaN]

CAR_TCO2_PER_YEAR == FLit(46, 10)

FOREST_TCO2_PER_HA_PER_YEAR == FInt(7)

\* x ** n for a float x and an int n
FPow(x, n) ==
    IF n >= 0 THEN FPowNat(x, n) ELSE FDiv(FInt(1), FPowNat(x, -n))

\* Mutant of SimplePayback: 0.0 stands for "no payback".
SimplePayback_Zero(effective_capex, annual_net_cashflow) ==
    IF FGt(annual_net_cashflow, FInt(0))
    THEN FDiv(effective_capex, annual_net_cashflow)
    ELSE FInt(0)

\* simple_payback_years as returned: None becomes nan
SimplePayback(effective_capex, annual_net_cashflow) ==
    IF FGt(annual_net_cashflow, FInt(0))
    THEN FDiv(effective_capex, annual_net_cashflow)
    ELSE NaN

\* Mutant of CapitalRecoveryFactor: the compound formula also at r = 0.
CapitalRecoveryFactor_NoZeroBranch(r, n) ==
    IF FGe(r, FInt(0))
    THEN LET growth == FPow(FAdd(FInt(1), r), n)
             denom  == FSub(growth, FInt(1))
         IN  IF denom.m = 0 THEN Raised("ZeroDivisionError", NaN)
             ELSE Returned(FDiv(FMul(r, growth), denom))
    ELSE IF n = 0 THEN Raised("ZeroDivisionError", NaN)
         ELSE Returned(FDiv(FInt(1), FInt(n)))

\* crf, or the ZeroDivisionError of its computation
CapitalRecoveryFactor(r, n) ==
    IF FGt(r, FInt(0))
    THEN LET growth == FPow(FAdd(FInt(1), r), n)
             denom  == FSub(growth, FInt(1))
         IN  IF denom.m = 0 THEN Raised("ZeroDivisionError", NaN)
             ELSE Returned(FDiv(FMul(r, growth), denom))
    ELSE IF n = 0 THEN Raised("ZeroDivisionError", NaN)
         ELSE Returned(FDiv(FInt(1), FInt(n)))

\* Mutant of Lcoe: 0.0 when there is no energy.
Lcoe_Zero(annualized_cost, annual_energy_kwh) ==
    IF FGt(annual_energy_kwh, FInt(0))
    THEN FDiv(annualized_cost, annual_energy_kwh)
    ELSE FInt(0)

\* lcoe_no_subsidy and lcoe_with_subsidy
Lcoe(annualized_cost, annual_energy_kwh) ==
    IF FGt(annual_energy_kwh, FInt(0))
    THEN FDiv(annualized_cost, annual_energy_kwh)
    ELSE NaN

CapacityFactor(annual_energy_kwh, system_size_kwp) ==
    IF FGt(system_size_kwp, FInt(0))
    THEN FDiv(annual_energy_kwh, FMul(system_size_kwp, FInt(8760)))
    ELSE NaN

\* Mutant of GhgSavings: nan when there is no energy.
GhgSavings_Undefined(annual_energy_kwh, emission_factor_kg_per_kwh) ==
    IF FGt(annual_energy_kwh, FInt(0))
    THEN FDiv(FMul(annual_energy_kwh, emission_factor_kg_per_kwh), FInt(1000))
    ELSE NaN

GhgSavings(annual_energy_kwh, emission_factor_kg_per_kwh) ==
    IF FGt(annual_energy_kwh, FInt(0))
    THEN FDiv(FMul(annual_energy_kwh, emission_factor_kg_per_kwh), FInt(1000))
    ELSE FInt(0)

\* Mutant of EstimateLocals: the O&M on the capex after subsidy.
EstimateLocals_OmOnNet(a) ==
    LET annual_poa_kwh_m2   == a.profile_df.annual_ghi_poa
        annual_kwh_per_kwp  == FMul(annual_poa_kwh_m2, a.performance_ratio)
        annual_energy_kwh   == FMul(annual_kwh_per_kwp, a.system_size_kwp)
        total_capex         == FMul(a.capex_per_kwp, a.system_size_kwp)
        subsidy_fraction    == FDiv(a.capex_subsidy_percent, FInt(100))
        effective_capex     == FMul(total_capex,
                                    FSub(FInt(1), subsidy_fraction))
        annual_om           == FMul(effective_capex,
                                    FDiv(a.om_percent_of_capex, FInt(100)))
        annual_revenue      == FMul(annual_energy_kwh, a.tariff_per_kwh)
        annual_net_cashflow == FSub(annual_revenue, annual_om)
        simple_payback_years ==
            SimplePayback(effective_capex, annual_net_cashflow)
        r       == FDiv(a.discount_rate_percent, FInt(100))
        n       == a.project_life_years
        crf_out == CapitalRecoveryFactor(r, n)
        crf     == crf_out.value
        annualized_capex_no_subsidy   == FMul(total_capex, crf)
        annualized_capex_with_subsidy == FMul(effective_capex, crf)
        annualized_cost_no_subsidy ==
            FAdd(annualized_capex_no_subsidy, annual_om)
        annualized_cost_with_subsidy ==
            FAdd(annualized_capex_with_subsidy, annual_om)
        lcoe_no_subsidy ==
            Lcoe(annualized_cost_no_subsidy, annual_energy_kwh)
        lcoe_with_subsidy ==
            Lcoe(annualized_cost_with_subsidy, annual_energy_kwh)
        capacity_factor ==
            CapacityFactor(annual_energy_kwh, a.system_size_kwp)
        annual_ghg_savings_tco2 ==
            GhgSavings(annual_energy_kwh, a.emission_factor_kg_per_kwh)
        cars_equiv ==
            IF FGt(CAR_TCO2_PER_YEAR, FInt(0))
            THEN FDiv(annual_ghg_savings_tco2, CAR_TCO2_PER_YEAR)
            ELSE FInt(0)
        forest_ha_equiv ==
            IF FGt(FOREST_TCO2_PER_HA_PER_YEAR, FInt(0))
            THEN FDiv(annual_ghg_savings_tco2, FOREST_TCO2_PER_HA_PER_YEAR)
            ELSE FInt(0)
    IN  [annual_kwh_per_kwp |-> annual_kwh_per_kwp,
         annual_energy_kwh |-> annual_energy_kwh,
         total_capex |-> total_capex,
         effective_capex |-> effective_capex,
         annual_om |-> annual_om,
         annual_revenue |-> annual_revenue,
         annual_net_cashflow |-> annual_net_cashflow,
         simple_payback_years |-> simple_payback_years,
         r |-> r, n |-> n, crf_exc |-> crf_out.exc, crf |-> crf,
         annualized_cost_no_subsidy |-> annualized_cost_no_subsidy,
         annualized_cost_with_subsidy |-> annualized_cost_with_subsidy,
         lcoe_no_subsidy |-> lcoe_no_subsidy,
         lcoe_with_subsidy |-> lcoe_with_subsidy,
         capacity_factor |-> capacity_factor,
         annual_ghg_savings_tco2 |-> annual_ghg_savings_tco2,
         cars_equiv |-> cars_equiv,
         forest_ha_equiv |-> forest_ha_equiv]

\* The local variables of estimate_pv_yield_and_financials, for the record a
\* of its arguments.  crf_exc is the exception raised by the computation of
\* crf, in which case the locals assigned after it do not exist (nan here).
EstimateLocals(a) ==
    LET annual_poa_kwh_m2   == a.profile_df.annual_ghi_poa
        annual_kwh_per_kwp  == FMul(annual_poa_kwh_m2, a.performance_ratio)
        annual_energy_kwh   == FMul(annual_kwh_per_kwp, a.system_size_kwp)
        total_capex         == FMul(a.capex_per_kwp, a.system_size_kwp)
        subsidy_fraction    == FDiv(a.capex_subsidy_percent, FInt(100))
        effective_capex     == FMul(total_capex,
                                    FSub(FInt(1), subsidy_fraction))
        annual_om           == FMul(total_capex,
                                    FDiv(a.om_percent_of_capex, FInt(100)))
        annual_revenue      == FMul(annual_energy_kwh, a.tariff_per_kwh)
        annual_net_cashflow == FSub(annual_revenue, annual_om)
        simple_payback_years ==
            SimplePayback(effective_capex, annual_net_cashflow)
        r       == FDiv(a.discount_rate_percent, FInt(100))
        n       == a.project_life_years
        crf_out == CapitalRecoveryFactor(r, n)
        crf     == crf_out.value
        annualized_capex_no_subsidy   == FMul(total_capex, crf)
        annualized_capex_with_subsidy == FMul(effective_capex, crf)
        annualized_cost_no_subsidy ==
            FAdd(annualized_capex_no_subsidy, annual_om)
        annualized_cost_with_subsidy ==
            FAdd(annualized_capex_with_subsidy, annual_om)
        lcoe_no_subsidy ==
            Lcoe(annualized_cost_no_subsidy, annual_energy_kwh)
        lcoe_with_subsidy ==
            Lcoe(annualized_cost_with_subsidy, annual_energy_kwh)
        capacity_factor ==
            CapacityFactor(annual_energy_kwh, a.system_size_kwp)
        annual_ghg_savings_tco2 ==
            GhgSavings(annual_energy_kwh, a.emission_factor_kg_per_kwh)
        cars_equiv ==
            IF FGt(CAR_TCO2_PER_YEAR, FInt(0))
            THEN FDiv(annual_ghg_savings_tco2, CAR_TCO2_PER_YEAR)
            ELSE FInt(0)
        forest_ha_equiv ==
            IF FGt(FOREST_TCO2_PER_HA_PER_YEAR, FInt(0))
            THEN FDiv(annual_ghg_savings_tco2, FOREST_TCO2_PER_HA_PER_YEAR)
            ELSE FInt(0)
    IN  [annual_kwh_per_kwp |-> annual_kwh_per_kwp,
         annual_energy_kwh |-> annual_energy_kwh,
         total_capex |-> total_capex,
         effective_capex |-> effective_capex,
         annual_om |-> annual_om,
         annual_revenue |-> annual_revenue,
         annual_net_cashflow |-> annual_net_cashflow,
         simple_payback_years |-> simple_payback_years,
         r |-> r, n |-> n, crf_exc |-> crf_out.exc, crf |-> crf,
         annualized_cost_no_subsidy |-> annualized_cost_no_subsidy,
         annualized_cost_with_subsidy |-> annualized_cost_with_subsidy,
         lcoe_no_subsidy |-> lcoe_no_subsidy,
         lcoe_with_subsidy |-> lcoe_with_subsidy,
         capacity_factor |-> capacity_factor,
         annual_ghg_savings_tco2 |-> annual_ghg_savings_tco2,
         cars_equiv |-> cars_equiv,
         forest_ha_equiv |-> forest_ha_equiv]

\* The dict returned at the end of estimate_pv_yield_and_financials
ResultDict(a, v) ==
    [none |-> FALSE,
     annual_kwh_per_kwp |-> v.annual_kwh_per_kwp,
     annual_energy_kwh |-> v.annual_energy_kwh,
     total_capex |-> v.total_capex,
     effective_capex |-> v.effective_capex,
     annual_om |-> v.annual_om,
     annual_revenue |-> v.annual_revenue,
     annual_net_cashflow |-> v.annual_net_cashflow,
     simple_payback_years |-> v.simple_payback_years,
     lcoe_no_subsidy |-> v.lcoe_no_subsidy,
     lcoe_with_subsidy |-> v.lcoe_with_subsidy,
     capacity_factor |-> v.capacity_factor,
     annual_ghg_savings_tco2 |-> v.annual_ghg_savings_tco2,
     cars_equiv |-> v.cars_equiv,
     forest_ha_equiv |-> v.forest_ha_equiv,
     emission_factor_kg_per_kwh |-> a.emission_factor_kg_per_kwh]

estimate_pv_yield_and_financials(a) ==
    LET v == EstimateLocals(a)
    IN  IF v.crf_exc # "none" THEN Raised(v.crf_exc, NoResults)
        ELSE Returned(ResultDict(a, v))

----------------------------------------------------------------------------
(* Formatting and the PDF report                                           *)

\* num / 2^sh rounded to an integer, halves to even, for 0 <= num < 2^30
RoundShift(num, sh) ==
    IF sh > 30 THEN 0
    ELSE IF sh = 0 THEN num
    ELSE LET q    == num \div Pow2(sh)
             rem  == num % Pow2(sh)
             half == Pow2(sh - 1)
         IN  IF rem > half \/ (rem = half /\ q % 2 = 1) THEN q + 1 ELSE q

\* |x| * 10^d rounded to an integer, for a number x
DecimalUnits(x, d) ==
    IF x.e >= 0 THEN Abs(x.m) * Pow2(x.e) * Pow10(d)
    ELSE RoundShift(Abs(x.m) * Pow10(d), -x.e)

\* f"{x:.df}" and f"{x:,.df}": the text "nan" for nan, else the decimal
\* number with d digits after the point (units / 10^d)
Format(x, d) ==
    IF x.nan THEN [text |-> "nan", units |-> 0, decimals |-> d]
    ELSE [text |-> "number", units |-> Sgn(x.m) * DecimalUnits(x, d),
          decimals |-> d]

\* The literal text "n/a"
NotApplicable == [text |-> "n/a", units |-> 0, decimals |-> 0]

Blank == [text |-> "", units |-> 0, decimals |-> 0]

\* A location text: the place name, or f"lat {latitude:.4f}, lon {longitude:.4f}"
NameText(name) == [kind |-> "name", name |-> name, lat |-> Blank, lon |-> Blank]

CoordsText(latitude, longitude) ==
    [kind |-> "coords", name |-> "", lat |-> Format(latitude, 4),
     lon |-> Format(longitude, 4)]

NoText == [kind |-> "none", name |-> "", lat |-> Blank, lon |-> Blank]

\* The payback line of the report and the payback metric of the summary
PaybackText(simple_payback_years) ==
    IF IsFinite(simple_payback_years) THEN Format(simple_payback_years, 1)
    ELSE NotApplicable

\* The two LCOE lines of the report and of the summary
LcoeText(lcoe) == Format(lcoe, 3)

\* The lines of the report that carry data, for the record a of the arguments
\* of generate_pdf_report
generate_pdf_report(a) ==
    [none |-> FALSE,
     location |-> a.location_text,
     latitude |-> Format(a.latitude, 4),
     longitude |-> Format(a.longitude, 4),
     annual_horizontal |-> Format(a.annual_horizontal, 0),
     annual_poa |-> Format(a.annual_poa, 0),
     resource_quality |-> a.solar_classification,
     system_size_kwp |-> Format(a.system_size_kwp, 0),
     performance_ratio |-> Format(a.performance_ratio, 2),
     capex_per_kwp |-> Format(a.capex_per_kwp, 0),
     tariff_per_kwh |-> Format(a.tariff_per_kwh, 3),
     om_percent_of_capex |-> Format(a.om_percent_of_capex, 2),
     project_life_years |-> a.project_life_years,
     discount_rate_percent |-> Format(a.discount_rate_percent, 1),
     capex_subsidy_percent |-> Format(a.capex_subsidy_percent, 1),
     displacement_mode |-> a.displacement_mode,
     emission_factor_kg_per_kwh |-> Format(a.emission_factor_kg_per_kwh, 3),
     annual_kwh_per_kwp |-> Format(a.results.annual_kwh_per_kwp, 0),
     annual_energy_kwh |-> Format(a.results.annual_energy_kwh, 0),
     capacity_factor |->
         Format(FMul(a.results.capacity_factor, FInt(100)), 1),
     total_capex |-> Format(a.results.total_capex, 0),
     effective_capex |-> Format(a.results.effective_capex, 0),
     annual_om |-> Format(a.results.annual_om, 0),
     annual_revenue |-> Format(a.results.annual_revenue, 0),
     annual_net_cashflow |-> Format(a.results.annual_net_cashflow, 0),
     simple_payback_years |-> PaybackText(a.results.simple_payback_years),
     annual_ghg_savings_tco2 |->
         Format(a.results.annual_ghg_savings_tco2, 0),
     cars_equiv |-> Format(a.results.cars_equiv, 0),
     forest_ha_equiv |-> Format(a.results.forest_ha_equiv, 0),
     lcoe_no_subsidy |-> LcoeText(a.results.lcoe_no_subsidy),
     lcoe_with_subsidy |-> LcoeText(a.results.lcoe_with_subsidy)]

\* No report
NoPdf ==
    [none |-> TRUE, location |-> NoText, latitude |-> Blank,
     longitude |-> Blank, annual_horizontal |-> Blank, annual_poa |-> Blank,
     resource_quality |-> "", system_size_kwp |-> Blank,
     performance_ratio |-> Blank, capex_per_kwp |-> Blank,
     tariff_per_kwh |-> Blank, om_percent_of_capex |-> Blank,
     project_life_years |-> 0, discount_rate_percent |-> Blank,
     capex_subsidy_percent |-> Blank, displacement_mode |-> "",
     emission_factor_kg_per_kwh |-> Blank, annual_kwh_per_kwp |-> Blank,
     annual_energy_kwh |-> Blank, capacity_factor |-> Blank,
     total_capex |-> Blank, effective_capex |-> Blank, annual_om |-> Blank,
     annual_revenue |-> Blank, annual_net_cashflow |-> Blank,
     simple_payback_years |-> Blank, annual_ghg_savings_tco2 |-> Blank,
     cars_equiv |-> Blank, forest_ha_equiv |-> Blank,
     lcoe_no_subsidy |-> Blank, lcoe_with_subsidy |-> Blank]

----------------------------------------------------------------------------
(* State                                                                   *)

VARIABLES
    pc,       \* where the program is
    args,     \* the arguments of a direct call of a core function
    ret,      \* the outcome of the last call
    widgets,  \* the values of the input widgets of the page
    env,      \* what the two web services answered in this run of main
    locals,   \* the local variables of main assigned by the run
    screen,   \* what the run has displayed
    calls     \* the functions the run has called, in order

vars == <<pc, args, ret, widgets, env, locals, screen, calls>>

callVars == <<args, ret>>

mainVars == <<widgets, env, locals, screen, calls>>

\* The call has not returned yet.
Pending == [exc |-> "pending", value |-> NoDF]

NoArgs == [f |-> "none"]

\* Optional[float]
Some(x) == [none |-> FALSE, v |-> x]

NoFloat == [none |-> TRUE, v |-> NaN]

NoResponse == HttpResponse("none", 0, FALSE, JNull)

NoEnv == [nasa |-> NoResponse, geo |-> NoResponse]

NoLocals ==
    [ghi_daily |-> NoGhi, profile_df |-> NoDF, emission_factor |-> NaN,
     results |-> NoResults, annual_horizontal |-> NaN, annual_poa |-> NaN,
     solar_class |-> "", location_name |-> JNull, location_text |-> NoText,
     pdf_bytes |-> NoPdf]

NoSummary ==
    [none |-> TRUE, location |-> NoText, annual_horizontal |-> Blank,
     annual_poa |-> Blank, annual_kwh_per_kwp |-> Blank,
     annual_energy_kwh |-> Blank, capacity_factor |-> Blank,
     total_capex |-> Blank, effective_capex |-> Blank,
     simple_payback_years |-> Blank, lcoe_no_subsidy |-> Blank,
     lcoe_with_subsidy |-> Blank, displacement_mode |-> "",
     emission_factor |-> Blank, annual_ghg_savings_tco2 |-> Blank,
     cars_equiv |-> Blank, forest_ha_equiv |-> Blank, table |-> <<>>,
     chart |-> <<>>]

NoScreen == [error |-> "", exc |-> "none", summary |-> NoSummary,
             download |-> FALSE]

\* The page before "Run feasibility" is pressed
NoRun ==
    /\ env = NoEnv
    /\ locals = NoLocals
    /\ screen = NoScreen
    /\ calls = <<>>

NoWidgets == [input_mode |-> ""]

\* The state of main in a direct call of a core function
NoMain == widgets = NoWidgets /\ NoRun

----------------------------------------------------------------------------
(* build_solar_profile called on its own                                   *)

MonthKeys == {NasaKey(MONTH_NAMES[i]) : i \in 1..Len(MONTH_NAMES)}

\* Daily irradiance of the twelve months, kWh/m2/day
GhiZero == [k \in MonthKeys |-> FInt(0)]

GhiFlat == [k \in MonthKeys |-> FInt(5)]

GhiTypical ==
    [k \in MonthKeys |->
        CASE k = "JAN" -> FLit(50, 10) [] k = "FEB" -> FLit(52, 10)
          [] k = "MAR" -> FLit(55, 10) [] k = "APR" -> FLit(58, 10)
          [] k = "MAY" -> FLit(55, 10) [] k = "JUN" -> FLit(50, 10)
          [] k = "JUL" -> FLit(48, 10) [] k = "AUG" -> FLit(49, 10)
          [] k = "SEP" -> FLit(53, 10) [] k = "OCT" -> FLit(54, 10)
          [] k = "NOV" -> FLit(51, 10) [] k = "DEC" -> FLit(49, 10)]

\* The fill value of NASA POWER for missing data
GhiFill == [k \in MonthKeys |-> FInt(-999)]

\* One month larger than in GhiFlat: by one unit in the last place of 5.0,
\* and by 1
GhiFlatUlp == [GhiFlat EXCEPT !["JUN"] = FAdd(FInt(5), Canon(1, 3 - FPrec))]

GhiFlatStep == [GhiFlat EXCEPT !["JUN"] = FInt(6)]

\* January of GhiTypical larger by one unit in the last place
GhiTypicalUlp ==
    [GhiTypical EXCEPT !["JAN"] = FAdd(FInt(5), Canon(1, 3 - FPrec))]

GhiPatterns ==
    {GhiZero, GhiFlat, GhiTypical, GhiFill, GhiFlatUlp, GhiFlatStep,
     GhiTypicalUlp}

\* The sets of month keys left out of the mapping
MissingSets ==
    {{}} \cup {{k} : k \in MonthKeys} \cup
    {{"JAN", "DEC"}, {"FEB", "MAR", "APR"}, MonthKeys}

Restrict(f, S) == [k \in S |-> f[k]]

GhiInputs == {Restrict(g, MonthKeys \ ms) : g \in GhiPatterns, ms \in MissingSets}

TiltInputs == {FInt(1), FLit(11, 10), FLit(13, 10), FInt(0), FInt(-1)}

InitProfile ==
    /\ pc = "call_profile"
    /\ args \in {[ghi_daily_kwh_per_m2 |-> g, tilt_gain_factor |-> t] :
                    g \in GhiInputs, t \in TiltInputs}
    /\ ret = Pending
    /\ NoMain

CallBuildProfile ==
    /\ pc = "call_profile"
    /\ ret' = build_solar_profile(args.ghi_daily_kwh_per_m2,
                                  args.tilt_gain_factor)
    /\ pc' = "returned_profile"
    /\ UNCHANGED <<args, mainVars>>

NextProfile == CallBuildProfile

SpecProfile == InitProfile /\ [][NextProfile]_vars

----------------------------------------------------------------------------
(* classify_solar_resource called on its own                               *)

\* Annual POA values: a grid of step 8 from -80 to 2400, the floats next to
\* the three thresholds, and nan.
PoaInputs ==
    {FInt(8 * k) : k \in -10..300} \cup
    {FInt(1399), FInt(1401), FInt(1799), FInt(1801), FInt(2198), FInt(2202),
     FLit(27999, 20), FLit(35999, 20), NaN}

InitClassify ==
    /\ pc = "call_classify"
    /\ args \in {[annual_poa_kwh_m2 |-> x] : x \in PoaInputs}
    /\ ret = Pending
    /\ NoMain

CallClassify ==
    /\ pc = "call_classify"
    /\ ret' = Returned(classify_solar_resource(args.annual_poa_kwh_m2))
    /\ pc' = "returned_classify"
    /\ UNCHANGED <<args, mainVars>>

NextClassify == CallClassify

SpecClassify == InitClassify /\ [][NextClassify]_vars

----------------------------------------------------------------------------
(* estimate_pv_yield_and_financials called on its own                      *)

\* A DataFrame of which only attrs["annual_ghi_poa"] is read
ProfileWithPoa(x) ==
    [none |-> FALSE, rows |-> <<>>, annual_ghi_horizontal |-> x,
     annual_ghi_poa |-> x]

EnginePoaInputs == {FInt(0), FInt(1800)}

SizeInputs == {FInt(-1), FInt(0), FInt(2)}

PerformanceRatioInputs == {FLit(-1, 2), FInt(0), FLit(3, 4)}

CapexInputs == {FInt(-8), FInt(0), FInt(800)}

TariffInputs == {FLit(-1, 8), FInt(0), FLit(15, 100)}

OmInputs == {FInt(-1), FInt(0), FLit(3, 2)}

SubsidyInputs == {FInt(-25), FInt(0), FInt(100)}

EmissionInputs == {FLit(-1, 2), FInt(0), FLit(6, 10)}

\* 2^-10 percent is a positive rate r with 1 + r = 1 in FPrec bits
DiscountInputs == {FInt(-1), FInt(0), FInt(8), Canon(1, -10)}

LifeInputs == {-2, 0, 1, 25}

EngineInputs ==
    {[profile_df |-> ProfileWithPoa(poa), system_size_kwp |-> size,
      performance_ratio |-> pr, capex_per_kwp |-> capex,
      tariff_per_kwh |-> tariff, om_percent_of_capex |-> om,
      project_life_years |-> life, discount_rate_percent |-> rate,
      emission_factor_kg_per_kwh |-> ef, capex_subsidy_percent |-> sub] :
        poa \in EnginePoaInputs, size \in SizeInputs,
        pr \in PerformanceRatioInputs, capex \in CapexInputs,
        tariff \in TariffInputs, om \in OmInputs, life \in LifeInputs,
        rate \in DiscountInputs, ef \in EmissionInputs,
        sub \in SubsidyInputs}

InitEngine ==
    /\ pc = "call_estimate"
    /\ args \in EngineInputs
    /\ ret = Pending
    /\ NoMain

CallEstimate ==
    /\ pc = "call_estimate"
    /\ ret' = estimate_pv_yield_and_financials(args)
    /\ pc' = "returned_estimate"
    /\ UNCHANGED <<args, mainVars>>

NextEngine == CallEstimate

SpecEngine == InitEngine /\ [][NextEngine]_vars

----------------------------------------------------------------------------
(* main: the page and the "Run feasibility" handler                        *)

ManualMode == "Enter coordinates manually"

MapMode == "Pick on interactive globe/map"

\* latitude and longitude as main determines them from the widgets
Latitude(w) ==
    IF w.input_mode = ManualMode THEN Some(w.typed_latitude)
    ELSE IF w.last_clicked.none THEN NoFloat
    ELSE Some(w.last_clicked.lat)

Longitude(w) ==
    IF w.input_mode = ManualMode THEN Some(w.typed_longitude)
    ELSE IF w.last_clicked.none THEN NoFloat
    ELSE Some(w.last_clicked.lng)

NoClick == [none |-> TRUE, lat |-> NaN, lng |-> NaN]

Click(lat, lng) == [none |-> FALSE, lat |-> lat, lng |-> lng]

\* The ways the location is chosen
LocationChoices ==
    {[input_mode |-> ManualMode, last_clicked |-> NoClick],
     [input_mode |-> MapMode, last_clicked |-> NoClick],
     [input_mode |-> MapMode, last_clicked |-> Click(FLit(103, 2), FLit(-1, 8))]}

\* Values the widgets accept (all within their min_value and max_value)
WidgetTariffs == {FInt(0), FLit(15, 100)}

WidgetDiscountRates == {FInt(0), FInt(8), Canon(1, -10)}

WidgetDisplacements == {"Grid electricity", "Diesel generators"}

WidgetInputs ==
    {[input_mode |-> loc.input_mode, typed_latitude |-> FInt(9),
      typed_longitude |-> FInt(7), last_clicked |-> loc.last_clicked,
      data_source |-> "NASA POWER (GHI climatology)",
      tilt_gain_factor |-> FLit(11, 10), system_size_kwp |-> FInt(1000),
      performance_ratio |-> FLit(8, 10), capex_per_kwp |-> FInt(800),
      tariff_per_kwh |-> tariff, om_percent_of_capex |-> FLit(3, 2),
      project_life_years |-> 25, discount_rate_percent |-> rate,
      capex_subsidy_percent |-> FInt(0), displacement_mode |-> mode,
      grid_emission_factor_kg_per_kwh |-> FLit(6, 10),
      diesel_emission_factor_kg_per_kwh |-> FLit(8, 10)] :
        loc \in LocationChoices, tariff \in WidgetTariffs,
        rate \in WidgetDiscountRates, mode \in WidgetDisplacements}

\* A monthly block of the NASA response with the values of g
MonthBlock(g, months) ==
    JDict([i \in 1..Len(months) |-> <<months[i], JNum(g[months[i]])>>])

BlockWithAnnual(g) ==
    JDict(MonthBlock(g, NasaMonths).items \o <<<<"ANN", JNum(FInt(5))>>>>)

ElevenMonths == SubSeq(NasaMonths, 1, 11)

BlockWithNull(g) ==
    JDict(MonthBlock(g, ElevenMonths).items \o <<<<"DEC", JNull>>>>)

\* The "parameters" entry of the header: units and long name, no months
ParameterInfo ==
    JDict(<<<<NASA_PARAM, JDict(<<<<"units", JStr("kW-hr/m^2/day")>>,
                                  <<"longname", JStr("All Sky")>>>>)>>>>)

\* A GeoJSON feature as NASA POWER answers
Feature(block) ==
    JDict(<<<<"type", JStr("Feature")>>,
            <<"properties",
              JDict(<<<<"parameter", JDict(<<<<NASA_PARAM, block>>>>)>>>>)>>,
            <<"parameters", ParameterInfo>>,
            <<"messages", JList(<<>>)>>>>)

Ok(data) == HttpResponse("ok", 200, TRUE, data)

\* What the NASA POWER server may answer
NasaResponses ==
    {HttpResponse("ConnectionError", 0, FALSE, JNull),
     HttpResponse("Timeout", 0, FALSE, JNull),
     HttpResponse("ok", 500, TRUE, JDict(<<>>)),
     HttpResponse("ok", 200, FALSE, JNull),
     Ok(JDict(<<<<"messages", JList(<<JStr("no data")>>)>>>>)),
     Ok(Feature(MonthBlock(GhiTypical, ElevenMonths))),
     Ok(Feature(BlockWithNull(GhiTypical))),
     Ok(Feature(BlockWithAnnual(GhiTypical))),
     Ok(Feature(BlockWithAnnual(GhiZero))),
     Ok(Feature(BlockWithAnnual(GhiFill))),
     Ok(JDict(<<<<NASA_PARAM, MonthBlock(GhiFlat, NasaMonths)>>>>)),
     Ok(JDict(<<<<"parameters",
                  JDict(<<<<NASA_PARAM, MonthBlock(GhiFlat, NasaMonths)>>>>)>>>>)),
     Ok(JDict(<<<<"features",
                  JList(<<Feature(MonthBlock(GhiTypical, ElevenMonths)),
                          Feature(MonthBlock(GhiFlat, NasaMonths))>>)>>>>))}

Address(pairs) == Ok(JDict(<<<<"address", JDict(pairs)>>>>))

\* What the Nominatim server may answer
GeoResponses ==
    {HttpResponse("ConnectionError", 0, FALSE, JNull),
     HttpResponse("ok", 429, TRUE, JDict(<<>>)),
     HttpResponse("ok", 200, FALSE, JNull),
     Ok(JList(<<>>)),
     Ok(JDict(<<<<"error", JStr("Unable to geocode")>>>>)),
     Ok(JDict(<<<<"address", JStr("somewhere")>>>>)),
     Address(<<<<"city", JStr("Abuja")>>, <<"country", JStr("Nigeria")>>>>),
     Address(<<<<"city", JStr("")>>, <<"village", JStr("Kuje")>>>>),
     Address(<<<<"country", JStr("Nigeria")>>>>),
     Address(<<<<"city", JNum(FInt(7))>>, <<"country", JStr("")>>>>)}

\* The arguments main passes to estimate_pv_yield_and_financials
EstimateArgs(w, profile_df, emission_factor) ==
    [profile_df |-> profile_df, system_size_kwp |-> w.system_size_kwp,
     performance_ratio |-> w.performance_ratio,
     capex_per_kwp |-> w.capex_per_kwp, tariff_per_kwh |-> w.tariff_per_kwh,
     om_percent_of_capex |-> w.om_percent_of_capex,
     project_life_years |-> w.project_life_years,
     discount_rate_percent |-> w.discount_rate_percent,
     emission_factor_kg_per_kwh |-> emission_factor,
     capex_subsidy_percent |-> w.capex_subsidy_percent]

\* The emission factor of the displacement scenario
EmissionFactor(w) ==
    IF w.displacement_mode = "Diesel generators"
    THEN w.diesel_emission_factor_kg_per_kwh
    ELSE w.grid_emission_factor_kg_per_kwh

\* The location text from the name the geocoder gave
LocationText(location_name, latitude, longitude) ==
    IF Truthy(location_name) THEN NameText(StrOf(location_name))
    ELSE CoordsText(latitude, longitude)

\* The arguments main passes to generate_pdf_report
PdfArgs(w, l) ==
    [location_text |-> l.location_text, latitude |-> Latitude(w).v,
     longitude |-> Longitude(w).v, system_size_kwp |-> w.system_size_kwp,
     performance_ratio |-> w.performance_ratio,
     capex_per_kwp |-> w.capex_per_kwp, tariff_per_kwh |-> w.tariff_per_kwh,
     om_percent_of_capex |-> w.om_percent_of_capex,
     project_life_years |-> w.project_life_years,
     discount_rate_percent |-> w.discount_rate_percent,
     capex_subsidy_percent |-> w.capex_subsidy_percent,
     displacement_mode |-> w.displacement_mode,
     emission_factor_kg_per_kwh |-> l.emission_factor,
     annual_horizontal |-> l.annual_horizontal, annual_poa |-> l.annual_poa,
     results |-> l.results, solar_classification |-> l.solar_class]

\* The payback metric of the summary
PaybackMetric(simple_payback_years) ==
    IF IsFinite(simple_payback_years) THEN Format(simple_payback_years, 1)
    ELSE NotApplicable

\* The two LCOE lines of the summary
LcoeLine(lcoe) == Format(lcoe, 3)

\* The rows of a DataFrame sorted by the ordered categorical Month
SortedByMonth(rows) ==
    [i \in 1..Len(rows) |->
        rows[CHOOSE j \in 1..Len(rows) : rows[j].Month = MONTH_NAMES[i]]]

\* The table of the monthly profile, with its rounded columns
ProfileTable(rows) ==
    [i \in 1..Len(rows) |->
        [Month |-> SortedByMonth(rows)[i].Month,
         Days |-> SortedByMonth(rows)[i].Days,
         GHI_horizontal_day |->
             Format(SortedByMonth(rows)[i].GHI_horizontal_day, 2),
         GHI_horizontal_month |->
             Format(SortedByMonth(rows)[i].GHI_horizontal_month, 1),
         GHI_POA_month |-> Format(SortedByMonth(rows)[i].GHI_POA_month, 1)]]

\* The bar chart: the monthly horizontal GHI by month
ProfileChart(rows) ==
    [i \in 1..Len(rows) |->
        <<SortedByMonth(rows)[i].Month,
          SortedByMonth(rows)[i].GHI_horizontal_month>>]

\* What main displays between the location label and the PDF
Summary(w, l) ==
    [none |-> FALSE, location |-> l.location_text,
     annual_horizontal |-> Format(l.annual_horizontal, 0),
     annual_poa |-> Format(l.annual_poa, 0),
     annual_kwh_per_kwp |-> Format(l.results.annual_kwh_per_kwp, 0),
     annual_energy_kwh |-> Format(l.results.annual_energy_kwh, 0),
     capacity_factor |->
         Format(FMul(l.results.capacity_factor, FInt(100)), 1),
     total_capex |-> Format(l.results.total_capex, 0),
     effective_capex |-> Format(l.results.effective_capex, 0),
     simple_payback_years |-> PaybackMetric(l.results.simple_payback_years),
     lcoe_no_subsidy |-> LcoeLine(l.results.lcoe_no_subsidy),
     lcoe_with_subsidy |-> LcoeLine(l.results.lcoe_with_subsidy),
     displacement_mode |-> w.displacement_mode,
     emission_factor |-> Format(l.emission_factor, 3),
     annual_ghg_savings_tco2 |->
         Format(l.results.annual_ghg_savings_tco2, 0),
     cars_equiv |-> Format(l.results.cars_equiv, 0),
     forest_ha_equiv |-> Format(l.results.forest_ha_equiv, 0),
     table |-> ProfileTable(l.profile_df.rows),
     chart |-> ProfileChart(l.profile_df.rows)]

LatLonError ==
    "Latitude/longitude could not be determined. Select a point or enter coordinates."

ProcessingError == "Error while fetching or processing data"

\* Mutant of NextPc: the exception is swallowed and the run goes on.
NextPc_Swallow(out, then) == then

\* Where the run goes after a call inside the try block: on to the next
\* statement, or to the except clause
NextPc(out, then) == IF out.exc # "none" THEN "error" ELSE then

\* Mutant of Shown: the exception is dropped without a message.
Shown_Silent(scr, out) == scr

\* except Exception as e: st.error(...)
Shown(scr, out) ==
    IF out.exc # "none"
    THEN [scr EXCEPT !.error = ProcessingError, !.exc = out.exc]
    ELSE scr

\* The button is pressed: the coordinates are tested
PressRun ==
    /\ pc = "idle"
    /\ IF Latitude(widgets).none \/ Longitude(widgets).none
       THEN /\ screen' = [screen EXCEPT !.error = LatLonError]
            /\ pc' = "error"
       ELSE /\ screen' = screen
            /\ pc' = "fetch"
    /\ UNCHANGED <<widgets, env, locals, calls, callVars>>

\* In the actions of the run, ret is the outcome of the call the step makes.

\* ghi_daily = get_nasa_ghi_climatology(latitude, longitude)
Fetch ==
    /\ pc = "fetch"
    /\ \E resp \in NasaResponses :
        /\ env' = [env EXCEPT !.nasa = resp]
        /\ ret' = get_nasa_ghi_climatology(resp)
    /\ calls' = Append(calls, "get_nasa_ghi_climatology")
    /\ locals' = [locals EXCEPT !.ghi_daily = ret'.value]
    /\ screen' = Shown(screen, ret')
    /\ pc' = NextPc(ret', "profile")
    /\ UNCHANGED <<widgets, args>>

\* profile_df = build_solar_profile(ghi_daily, tilt_gain_factor)
BuildProfile ==
    /\ pc = "profile"
    /\ ret' = build_solar_profile(locals.ghi_daily, widgets.tilt_gain_factor)
    /\ calls' = Append(calls, "build_solar_profile")
    /\ locals' = [locals EXCEPT !.profile_df = ret'.value]
    /\ screen' = Shown(screen, ret')
    /\ pc' = NextPc(ret', "estimate")
    /\ UNCHANGED <<widgets, env, args>>

\* The emission factor is chosen; results = estimate_pv_yield_and_financials(...)
Estimate ==
    /\ pc = "estimate"
    /\ ret' = estimate_pv_yield_and_financials(
                  EstimateArgs(widgets, locals.profile_df,
                               EmissionFactor(widgets)))
    /\ calls' = Append(calls, "estimate_pv_yield_and_financials")
    /\ locals' = [locals EXCEPT !.emission_factor = EmissionFactor(widgets),
                                !.results = ret'.value]
    /\ screen' = Shown(screen, ret')
    /\ pc' = NextPc(ret', "classify")
    /\ UNCHANGED <<widgets, env, args>>

\* The annual totals are read; solar_class = classify_solar_resource(annual_poa)
Classify ==
    /\ pc = "classify"
    /\ ret' = Returned(classify_solar_resource(
                           locals.profile_df.annual_ghi_poa))
    /\ calls' = Append(calls, "classify_solar_resource")
    /\ locals' = [locals EXCEPT
           !.annual_horizontal = locals.profile_df.annual_ghi_horizontal,
           !.annual_poa = locals.profile_df.annual_ghi_poa,
           !.solar_class = ret'.value]
    /\ pc' = "label"
    /\ UNCHANGED <<widgets, env, screen, args>>

\* location_name = reverse_geocode_city(latitude, longitude); location_text
Label ==
    /\ pc = "label"
    /\ \E resp \in GeoResponses :
        /\ env' = [env EXCEPT !.geo = resp]
        /\ ret' = reverse_geocode_city(resp)
    /\ calls' = Append(calls, "reverse_geocode_city")
    /\ locals' =
           IF ret'.exc # "none" THEN locals
           ELSE [locals EXCEPT
                    !.location_name = ret'.value,
                    !.location_text =
                        LocationText(ret'.value, Latitude(widgets).v,
                                     Longitude(widgets).v)]
    /\ screen' = Shown(screen, ret')
    /\ pc' = NextPc(ret', "summary")
    /\ UNCHANGED <<widgets, args>>

\* The location, the metrics, the LCOE and GHG lines, the table and the chart
ShowSummary ==
    /\ pc = "summary"
    /\ screen' = [screen EXCEPT !.summary = Summary(widgets, locals)]
    /\ pc' = "pdf"
    /\ UNCHANGED <<widgets, env, locals, calls, callVars>>

\* pdf_bytes = generate_pdf_report(...)
GeneratePdf ==
    /\ pc = "pdf"
    /\ calls' = Append(calls, "generate_pdf_report")
    /\ ret' = Returned(generate_pdf_report(PdfArgs(widgets, locals)))
    /\ locals' = [locals EXCEPT !.pdf_bytes = ret'.value]
    /\ pc' = "download"
    /\ UNCHANGED <<widgets, env, screen, args>>

\* st.download_button(...)
Download ==
    /\ pc = "download"
    /\ screen' = [screen EXCEPT !.download = TRUE]
    /\ pc' = "done"
    /\ UNCHANGED <<widgets, env, locals, calls, callVars>>

\* The user changes a widget: the script runs again from the top with the
\* button not pressed, and nothing of the last run stays on the page.
Interact ==
    /\ pc \in {"idle", "done", "error"}
    /\ widgets' \in WidgetInputs
    /\ env' = NoEnv
    /\ locals' = NoLocals
    /\ screen' = NoScreen
    /\ calls' = <<>>
    /\ ret' = Pending
    /\ pc' = "idle"
    /\ UNCHANGED args

Init ==
    /\ pc = "idle"
    /\ widgets \in WidgetInputs
    /\ NoRun
    /\ args = NoArgs
    /\ ret = Pending

Next ==
    \/ PressRun
    \/ Fetch
    \/ BuildProfile
    \/ Estimate
    \/ Classify
    \/ Label
    \/ ShowSummary
    \/ GeneratePdf
    \/ Download
    \/ Interact

Spec == Init /\ [][Next]_vars

----------------------------------------------------------------------------
(* Properties of estimate_pv_yield_and_financials (SpecEngine)             *)

EstimateReturned == pc = "returned_estimate" /\ ret.exc = "none"

Zero == FInt(0)

\* C1: in every result, simple_payback_years is a number exactly when
\* annual_net_cashflow (annual_revenue - annual_om) is greater than 0, it is
\* then effective_capex / annual_net_cashflow, and it is nan (neither zero
\* nor negative) when annual_net_cashflow <= 0.
C1_PaybackDefinedIffPositiveCashflow ==
    EstimateReturned =>
        LET res == ret.value IN
        /\ res.annual_net_cashflow = FSub(res.annual_revenue, res.annual_om)
        /\ IsFinite(res.simple_payback_years)
               <=> FGt(res.annual_net_cashflow, Zero)
        /\ FGt(res.annual_net_cashflow, Zero) =>
               res.simple_payback_years
                   = FDiv(res.effective_capex, res.annual_net_cashflow)
        /\ FLe(res.annual_net_cashflow, Zero) =>
               /\ res.simple_payback_years = NaN
               /\ res.simple_payback_years # Zero
               /\ ~FLt(res.simple_payback_years, Zero)

\* A result with a negative net cashflow and no payback
C1_Witness ==
    /\ EstimateReturned
    /\ FLt(ret.value.annual_net_cashflow, Zero)
    /\ ret.value.simple_payback_years = NaN

\* C2 as claimed: with annual_energy = 0 both LCOE figures and the capacity
\* factor are nan and the GHG savings are 0, whatever made the energy zero.
C2_ZeroEnergyAllUndefined ==
    (EstimateReturned /\ ret.value.annual_energy_kwh = Zero) =>
        /\ ret.value.lcoe_no_subsidy = NaN
        /\ ret.value.lcoe_with_subsidy = NaN
        /\ ret.value.capacity_factor = NaN
        /\ ret.value.annual_ghg_savings_tco2 = Zero

\* C2 amended: with annual_energy = 0 both LCOE figures are nan and the GHG
\* savings are 0; the capacity factor is nan exactly when system_size_kwp is
\* not greater than 0, and it is 0 when the energy is zero for a positive
\* system size.
C2_ZeroEnergyAmended ==
    (EstimateReturned /\ ret.value.annual_energy_kwh = Zero) =>
        /\ ret.value.lcoe_no_subsidy = NaN
        /\ ret.value.lcoe_with_subsidy = NaN
        /\ ret.value.annual_ghg_savings_tco2 = Zero
        /\ (ret.value.capacity_factor = NaN)
               <=> ~FGt(args.system_size_kwp, Zero)
        /\ FGt(args.system_size_kwp, Zero) => ret.value.capacity_factor = Zero

\* Zero energy from a zero performance ratio, with a positive system size
C2_Witness ==
    /\ EstimateReturned
    /\ ret.value.annual_energy_kwh = Zero
    /\ FGt(args.system_size_kwp, Zero)
    /\ args.performance_ratio = Zero
    /\ ret.value.lcoe_no_subsidy = NaN

\* C6 as claimed: a call with project_life_years <= 0 ends in an error and
\* returns no result.
C6_NonPositiveLifeRejected ==
    (pc = "returned_estimate" /\ args.project_life_years <= 0) =>
        ret.exc # "none"

\* The inputs C7 is about: project life at least 1, and a discount rate that
\* is zero, negative, or large enough for 1 + r to differ from 1.
C7_Covered ==
    /\ args.project_life_years >= 1
    /\ \/ FLe(args.discount_rate_percent, Zero)
       \/ FGt(FAdd(FInt(1), FDiv(args.discount_rate_percent, FInt(100))),
              FInt(1))

\* C7: for project_life_years >= 1 and zero, negative or ordinary values of
\* the other inputs the call returns a complete result; payback, LCOE and
\* capacity factor are nan, not 0, exactly when their guard fails, and every
\* other field is a number.
C7_NeverRaisesOnZeroOrNegative ==
    (pc = "returned_estimate" /\ C7_Covered) =>
        LET res == ret.value IN
        /\ ret.exc = "none"
        /\ ~res.none
        /\ (res.simple_payback_years = NaN)
               <=> ~FGt(res.annual_net_cashflow, Zero)
        /\ (res.lcoe_no_subsidy = NaN) <=> ~FGt(res.annual_energy_kwh, Zero)
        /\ (res.lcoe_with_subsidy = NaN) <=> ~FGt(res.annual_energy_kwh, Zero)
        /\ (res.capacity_factor = NaN) <=> ~FGt(args.system_size_kwp, Zero)
        /\ NaN # Zero
        /\ \A x \in {res.annual_kwh_per_kwp, res.annual_energy_kwh,
                     res.total_capex, res.effective_capex, res.annual_om,
                     res.annual_revenue, res.annual_net_cashflow,
                     res.annual_ghg_savings_tco2, res.cars_equiv,
                     res.forest_ha_equiv} : IsFinite(x)

\* A result for all-zero economics: zero size, zero rate
C7_Witness ==
    /\ EstimateReturned
    /\ args.project_life_years >= 1
    /\ args.system_size_kwp = Zero
    /\ args.discount_rate_percent = Zero
    /\ FLt(args.capex_per_kwp, Zero)
    /\ ret.value.capacity_factor = NaN
    /\ ret.value.simple_payback_years = NaN

----------------------------------------------------------------------------
(* Properties of classify_solar_resource (SpecClassify)                    *)

\* The four tiers
Excellent == "Excellent solar resource (top tier for utility-scale PV)."

Good == "Good solar resource suitable for most PV projects."

Moderate ==
    "Moderate solar resource; economics more sensitive to capex and tariff."

Lower ==
    "Lower solar resource; PV may still work with strong incentives or high tariffs."

\* x >= n for a float x and an integer n, by integer arithmetic
ExactGe(x, n) ==
    IF x.e >= 0 THEN x.m * Pow2(x.e) >= n ELSE x.m >= n * Pow2(-x.e)

TierRank(t) ==
    CASE t = Lower -> 0 [] t = Moderate -> 1 [] t = Good -> 2
      [] t = Excellent -> 3

\* The tier the claim gives for x
C4_Expected(x) ==
    CASE ExactGe(x, 2200) -> Excellent
      [] ExactGe(x, 1800) /\ ~ExactGe(x, 2200) -> Good
      [] ExactGe(x, 1400) /\ ~ExactGe(x, 1800) -> Moderate
      [] ~ExactGe(x, 1400) -> Lower

\* C4: classify_solar_resource returns for every x exactly the tier of the
\* range x lies in (2200, 1800 and 1400 belong to the higher tier, everything
\* below 1400 is Lower), and a larger x never gets a lower tier.
C4_ClassifyTotalAndMonotone ==
    pc = "returned_classify" =>
        /\ ret.exc = "none"
        /\ ret.value \in {Excellent, Good, Moderate, Lower}
        /\ ret.value = C4_Expected(args.annual_poa_kwh_m2)
        /\ \A y \in PoaInputs :
               FLe(y, args.annual_poa_kwh_m2) =>
                   TierRank(classify_solar_resource(y)) <= TierRank(ret.value)

\* The boundary value 1800 classified as Good
C4_Witness ==
    /\ pc = "returned_classify"
    /\ args.annual_poa_kwh_m2 = FInt(1800)
    /\ ret.value = Good

----------------------------------------------------------------------------
(* Properties of build_solar_profile (SpecProfile)                         *)

Complete(ghi) == MonthKeys \subseteq DOMAIN ghi

\* C5: a call with at least one month key missing raises, returns no
\* DataFrame at all, and leaves the mapping it was given as it was.
C5_MissingMonthFails ==
    [][(pc = "call_profile" /\ ~Complete(args.ghi_daily_kwh_per_m2)) =>
          /\ ret'.exc = "KeyError"
          /\ ret'.value = NoDF
          /\ args' = args]_vars

\* A call without the DEC key (the last one looked up) has raised
C5_Witness ==
    /\ pc = "returned_profile"
    /\ DOMAIN args.ghi_daily_kwh_per_m2 = MonthKeys \ {"DEC"}
    /\ ret.exc = "KeyError"

C10_DayCounts == <<31, 28, 31, 30, 31, 30, 31, 31, 30, 31, 30, 31>>

RECURSIVE SumInts(_, _)
SumInts(sq, i) == IF i = 0 THEN 0 ELSE SumInts(sq, i - 1) + sq[i]

\* The float sums of a column of the first i rows, in row order
RECURSIVE SumHorizontal(_, _)
SumHorizontal(rows, i) ==
    IF i = 0 THEN FInt(0)
    ELSE FAdd(SumHorizontal(rows, i - 1), rows[i].GHI_horizontal_month)

RECURSIVE SumPoa(_, _)
SumPoa(rows, i) ==
    IF i = 0 THEN FInt(0)
    ELSE FAdd(SumPoa(rows, i - 1), rows[i].GHI_POA_month)

\* Twelve rows Jan..Dec with the fixed day counts and the row equations
C10_Rows(df, ghi, tilt) ==
    /\ Len(df.rows) = 12
    /\ SumInts(C10_DayCounts, 12) = 365
    /\ \A i \in 1..12 :
        LET row == df.rows[i] IN
        /\ row.Month = MONTH_NAMES[i]
        /\ row.Days = C10_DayCounts[i]
        /\ row.GHI_horizontal_day = ghi[NasaKey(MONTH_NAMES[i])]
        /\ row.GHI_horizontal_month
               = FMul(row.GHI_horizontal_day, FInt(row.Days))
        /\ row.GHI_POA_month = FMul(row.GHI_horizontal_month, tilt)

ProfileReturnedComplete ==
    pc = "returned_profile" /\ Complete(args.ghi_daily_kwh_per_m2)

\* C10 as claimed: the rows, annual_horizontal = the sum of daily x days, and
\* annual_poa = annual_horizontal x tilt_gain_factor.
C10_ProfileExact ==
    ProfileReturnedComplete =>
        LET df == ret.value IN
        /\ ret.exc = "none"
        /\ C10_Rows(df, args.ghi_daily_kwh_per_m2, args.tilt_gain_factor)
        /\ df.annual_ghi_horizontal = SumHorizontal(df.rows, 12)
        /\ df.annual_ghi_poa
               = FMul(df.annual_ghi_horizontal, args.tilt_gain_factor)

FAbs(x) == IF x.nan THEN NaN ELSE Canon(Abs(x.m), x.e)

\* |a - b| <= 2^(5 - FPrec) * |b|: a and b agree up to the rounding of some
\* thirty floating-point operations
CloseTo(a, b) ==
    FLe(FMul(FAbs(FSub(a, b)), FInt(Pow2(FPrec - 5))), FAbs(b))

OneSign(ghi) ==
    \/ \A k \in MonthKeys : ghi[k].m >= 0
    \/ \A k \in MonthKeys : ghi[k].m <= 0

\* C10 amended: the rows as claimed; annual_horizontal and annual_poa are the
\* float sums of the rows' monthly horizontal and monthly POA values taken
\* in calendar order, and annual_poa agrees with annual_horizontal x
\* tilt_gain_factor up to floating-point rounding (for daily values of one
\* sign), not exactly.
C10_ProfileRounded ==
    ProfileReturnedComplete =>
        LET df == ret.value IN
        /\ ret.exc = "none"
        /\ C10_Rows(df, args.ghi_daily_kwh_per_m2, args.tilt_gain_factor)
        /\ df.annual_ghi_horizontal = SumHorizontal(df.rows, 12)
        /\ df.annual_ghi_poa = SumPoa(df.rows, 12)
        /\ OneSign(args.ghi_daily_kwh_per_m2) =>
               CloseTo(df.annual_ghi_poa,
                       FMul(df.annual_ghi_horizontal, args.tilt_gain_factor))

\* A profile of the typical year whose annual POA is not the rounded product
C10_Witness ==
    /\ ProfileReturnedComplete
    /\ args.ghi_daily_kwh_per_m2 = GhiTypical
    /\ args.tilt_gain_factor = FLit(11, 10)
    /\ Len(ret.value.rows) = 12
    /\ ret.value.annual_ghi_poa
           # FMul(ret.value.annual_ghi_horizontal, args.tilt_gain_factor)

----------------------------------------------------------------------------
(* Properties of the run of main (Spec)                                    *)

UndefinableFields ==
    {"simple_payback_years", "lcoe_no_subsidy", "lcoe_with_subsidy"}

\* The summary is on the screen
SummaryShown == ~screen.summary.none

\* The report has been generated
PdfGenerated == ~locals.pdf_bytes.none

\* C3: whenever simple_payback_years, lcoe_no_subsidy or lcoe_with_subsidy of
\* the results is the undefined sentinel (nan), the summary on the screen and
\* the PDF report carry the text "n/a" for that field; the sentinel is never
\* put through numeric formatting.
C3_UndefinedRenderedNotApplicable ==
    \A f \in UndefinableFields :
        ~IsFinite(locals.results[f]) =>
            /\ SummaryShown => screen.summary[f] = NotApplicable
            /\ PdfGenerated => locals.pdf_bytes[f] = NotApplicable

\* The part of C3 the code keeps: an undefined payback is rendered "n/a" in
\* the summary and in the report.
C3_PaybackRenderedNotApplicable ==
    ~IsFinite(locals.results.simple_payback_years) =>
        /\ SummaryShown => screen.summary.simple_payback_years = NotApplicable
        /\ PdfGenerated =>
               locals.pdf_bytes.simple_payback_years = NotApplicable

\* A finished run whose LCOE is undefined
C3_Witness ==
    /\ pc = "done"
    /\ SummaryShown
    /\ PdfGenerated
    /\ ~IsFinite(locals.results.lcoe_no_subsidy)
    /\ ~IsFinite(locals.results.simple_payback_years)

CoreFunctions ==
    {"build_solar_profile", "classify_solar_resource",
     "estimate_pv_yield_and_financials", "generate_pdf_report"}

\* The fetch of this run has been made and has raised
FetchFailed ==
    /\ env.nasa # NoResponse
    /\ get_nasa_ghi_climatology(env.nasa).exc # "none"

\* The fetch of this run has returned a mapping with the twelve month keys
FetchComplete ==
    /\ env.nasa # NoResponse
    /\ get_nasa_ghi_climatology(env.nasa).exc = "none"
    /\ DOMAIN locals.ghi_daily = MonthKeys

CoreInvoked == \E i \in 1..Len(calls) : calls[i] \in CoreFunctions

\* C8: in a run of main, when get_nasa_ghi_climatology fails, none of
\* build_solar_profile, classify_solar_resource,
\* estimate_pv_yield_and_financials and generate_pdf_report is invoked and the
\* run is in the error-displayed state; a core function is invoked only after
\* a fetch that returned a complete 12-key mapping.
C8_FailedFetchAbortsBeforeCore ==
    /\ FetchFailed =>
           /\ ~CoreInvoked
           /\ pc = "error"
           /\ screen.error = ProcessingError
           /\ screen.summary.none
           /\ ~PdfGenerated
    /\ CoreInvoked =>
           /\ calls[1] = "get_nasa_ghi_climatology"
           /\ FetchComplete

\* A run whose fetch failed, and stopped
C8_Witness == FetchFailed /\ pc = "error" /\ ~CoreInvoked

\* The steps of a run from the label on
AfterLabel ==
    [label |-> "summary", summary |-> "pdf", pdf |-> "download",
     download |-> "done"]

\* C9: reverse_geocode_city never raises, whatever the request or the parsing
\* of the response did; when it gives no label the location text is the
\* coordinate-based 'lat .., lon ..'; the label step leaves the results as
\* they are, and from it the run goes on through the summary and the report,
\* both made from those results, to the end.
C9_LabelFailureNeverAborts ==
    [][/\ pc = "label" =>
             /\ ret'.exc = "none"
             /\ locals'.results = locals.results
             /\ locals'.profile_df = locals.profile_df
             /\ ~Truthy(ret'.value) =>
                    locals'.location_text =
                        CoordsText(Latitude(widgets).v, Longitude(widgets).v)
       /\ pc \in DOMAIN AfterLabel => pc' = AfterLabel[pc]
       /\ pc = "summary" =>
             /\ screen'.summary = Summary(widgets, locals)
             /\ screen'.summary.location = locals.location_text
             /\ screen'.error = ""
       /\ pc = "pdf" =>
             /\ locals'.pdf_bytes = generate_pdf_report(PdfArgs(widgets, locals))
             /\ locals'.pdf_bytes.location = locals.location_text
             /\ locals'.results = locals.results]_vars

\* A finished run whose label lookup failed: the summary and the report carry
\* the coordinates as the location.
C9_Witness ==
    /\ pc = "done"
    /\ HttpGetJson(env.geo).exc # "none"
    /\ locals.location_name = JNull
    /\ screen.summary.location.kind = "coords"
    /\ locals.pdf_bytes.location.kind = "coords"
    /\ screen.download

----------------------------------------------------------------------------
(* The subsidy, the GHG figures and the capital recovery factor            *)
(* (SpecEngine)                                                            *)

\* The arguments of the call with another subsidy percentage
WithSubsidy(a, sub) == [a EXCEPT !.capex_subsidy_percent = sub]

\* The fields of the result the subsidy may change
SubsidyDependent ==
    {"effective_capex", "simple_payback_years", "lcoe_with_subsidy"}

\* C11: annual_om is total_capex x om_percent_of_capex / 100, on the capex
\* before subsidy; an evaluation ends like the evaluation that differs from
\* it only in capex_subsidy_percent (here: the one without subsidy), and has
\* the same annual_om, annual_revenue, annual_net_cashflow, total_capex and
\* lcoe_no_subsidy: every field but effective_capex, simple_payback_years
\* and lcoe_with_subsidy is the same.
C11_SubsidyLeavesOmAndGrossFiguresAlone ==
    pc = "returned_estimate" =>
        /\ ret.exc = "none" =>
               /\ ret.value.total_capex
                      = FMul(args.capex_per_kwp, args.system_size_kwp)
               /\ ret.value.annual_om
                      = FMul(ret.value.total_capex,
                             FDiv(args.om_percent_of_capex, FInt(100)))
        /\ \A other \in {estimate_pv_yield_and_financials(
                             WithSubsidy(args, FInt(0)))} :
               /\ other.exc = ret.exc
               /\ {"annual_om", "annual_revenue", "annual_net_cashflow",
                   "total_capex", "lcoe_no_subsidy"}
                      \subseteq DOMAIN ret.value \ SubsidyDependent
               /\ \A f \in DOMAIN ret.value \ SubsidyDependent :
                      other.value[f] = ret.value[f]

\* A result with a full subsidy whose O&M is that of the evaluation without
\* subsidy, and whose effective capex is not
C11_Witness ==
    /\ EstimateReturned
    /\ args.capex_subsidy_percent = FInt(100)
    /\ FGt(ret.value.annual_om, Zero)
    /\ ret.value.effective_capex = Zero
    /\ LET other == estimate_pv_yield_and_financials(
                        WithSubsidy(args, Zero)).value IN
       /\ other.annual_om = ret.value.annual_om
       /\ other.effective_capex # ret.value.effective_capex
       /\ other.lcoe_with_subsidy # ret.value.lcoe_with_subsidy

\* C12: annual_ghg_savings_tco2 is always a number, never nan: 0 whenever
\* annual_energy_kwh <= 0 (negative energy included) and annual_energy_kwh x
\* emission_factor_kg_per_kwh / 1000 otherwise; cars_equiv and forest_ha_equiv
\* are always numbers, the savings divided by 4.6 and by 7.0, and so 0
\* whenever the savings are 0.
C12_GhgAlwaysANumber ==
    EstimateReturned =>
        LET res == ret.value IN
        /\ IsFinite(res.annual_ghg_savings_tco2)
        /\ FLe(res.annual_energy_kwh, Zero) =>
               res.annual_ghg_savings_tco2 = Zero
        /\ FGt(res.annual_energy_kwh, Zero) =>
               res.annual_ghg_savings_tco2
                   = FDiv(FMul(res.annual_energy_kwh,
                               args.emission_factor_kg_per_kwh), FInt(1000))
        /\ IsFinite(res.cars_equiv)
        /\ IsFinite(res.forest_ha_equiv)
        /\ res.cars_equiv = FDiv(res.annual_ghg_savings_tco2, FLit(46, 10))
        /\ res.forest_ha_equiv = FDiv(res.annual_ghg_savings_tco2, FInt(7))
        /\ res.annual_ghg_savings_tco2 = Zero =>
               res.cars_equiv = Zero /\ res.forest_ha_equiv = Zero

\* A result with negative energy (a negative performance ratio) and a
\* positive emission factor: savings and equivalents are 0
C12_Witness ==
    /\ EstimateReturned
    /\ FLt(ret.value.annual_energy_kwh, Zero)
    /\ FGt(args.emission_factor_kg_per_kwh, Zero)
    /\ ret.value.annual_ghg_savings_tco2 = Zero
    /\ ret.value.cars_equiv = Zero
    /\ ret.value.forest_ha_equiv = Zero

----------------------------------------------------------------------------
(* Monotonicity of build_solar_profile (SpecProfile)                       *)

\* g2 is g1 with the daily irradiance of exactly one month strictly larger
OneMonthLarger(g1, g2) ==
    /\ Complete(g1) /\ Complete(g2)
    /\ \E k \in MonthKeys :
        /\ FGt(g2[k], g1[k])
        /\ \A h \in MonthKeys \ {k} : g2[h] = g1[h]

\* The complete inputs that are the input of this call with one month larger
LargerInputs ==
    {g2 \in GhiPatterns : OneMonthLarger(args.ghi_daily_kwh_per_m2, g2)}

ProfileOf(g) == build_solar_profile(g, args.tilt_gain_factor).value

\* C13 as claimed: with tilt_gain_factor > 0, a larger daily irradiance in
\* one month gives strictly greater annual_horizontal and annual_poa.
C13_StrictlyMonotone ==
    (ProfileReturnedComplete /\ FGt(args.tilt_gain_factor, FInt(0))) =>
        \A g2 \in LargerInputs :
            /\ FGt(ProfileOf(g2).annual_ghi_horizontal,
                   ret.value.annual_ghi_horizontal)
            /\ FGt(ProfileOf(g2).annual_ghi_poa, ret.value.annual_ghi_poa)

\* C13 amended: with tilt_gain_factor > 0, a larger daily irradiance in one
\* month never gives a smaller annual_horizontal or annual_poa; the totals
\* are float sums, and they stay equal when the increase is lost in their
\* rounding.
C13_Monotone ==
    (ProfileReturnedComplete /\ FGt(args.tilt_gain_factor, FInt(0))) =>
        \A g2 \in LargerInputs :
            /\ build_solar_profile(g2, args.tilt_gain_factor).exc = "none"
            /\ FGe(ProfileOf(g2).annual_ghi_horizontal,
                   ret.value.annual_ghi_horizontal)
            /\ FGe(ProfileOf(g2).annual_ghi_poa, ret.value.annual_ghi_poa)

\* The profile of GhiFlat, whose totals grow with June larger by 1 but not
\* with June larger by one unit in the last place
C13_Witness ==
    /\ ProfileReturnedComplete
    /\ args.ghi_daily_kwh_per_m2 = GhiFlat
    /\ args.tilt_gain_factor = FLit(11, 10)
    /\ {GhiFlatUlp, GhiFlatStep} \subseteq LargerInputs
    /\ ProfileOf(GhiFlatUlp).annual_ghi_horizontal
           = ret.value.annual_ghi_horizontal
    /\ ProfileOf(GhiFlatUlp).annual_ghi_poa = ret.value.annual_ghi_poa
    /\ FGt(ProfileOf(GhiFlatStep).annual_ghi_horizontal,
           ret.value.annual_ghi_horizontal)
    /\ FGt(ProfileOf(GhiFlatStep).annual_ghi_poa, ret.value.annual_ghi_poa)

----------------------------------------------------------------------------
(* The capital recovery factor (SpecEngine)                                *)

\* The compound formula r(1+r)^n / ((1+r)^n - 1) and its denominator
CompoundDenominator(r, n) == FSub(FPow(FAdd(FInt(1), r), n), FInt(1))

CompoundFormula(r, n) ==
    FDiv(FMul(r, FPow(FAdd(FInt(1), r), n)), CompoundDenominator(r, n))

\* C14: for project_life_years = n >= 1, a discount rate of 0 gives crf = 1/n
\* without the compound formula, so that the annualised costs are
\* total_capex x (1/n) + annual_om and effective_capex x (1/n) + annual_om;
\* the compound formula is used only for a strictly positive rate, and there
\* its denominator is not zero: the call returns with crf computed by it.
C14_CrfBySignOfRate ==
    (pc = "returned_estimate" /\ args.project_life_years >= 1) =>
        \A v \in {EstimateLocals(args)} :
            /\ args.discount_rate_percent = Zero =>
                   /\ ret.exc = "none"
                   /\ v.crf = FDiv(FInt(1), FInt(v.n))
                   /\ v.annualized_cost_no_subsidy
                          = FAdd(FMul(v.total_capex, FDiv(FInt(1), FInt(v.n))),
                                 v.annual_om)
                   /\ v.annualized_cost_with_subsidy
                          = FAdd(FMul(v.effective_capex,
                                      FDiv(FInt(1), FInt(v.n))),
                                 v.annual_om)
            /\ ~FGt(args.discount_rate_percent, Zero) =>
                   v.crf = FDiv(FInt(1), FInt(v.n))
            /\ FGt(args.discount_rate_percent, Zero) =>
                   /\ CompoundDenominator(v.r, v.n) # Zero
                   /\ ret.exc = "none"
                   /\ v.crf = CompoundFormula(v.r, v.n)

\* The part of C14 the code keeps: the branches, for a rate that is zero,
\* negative, or large enough for 1 + r to differ from 1.
C14_CrfForOrdinaryRates ==
    (pc = "returned_estimate" /\ C7_Covered) =>
        \A v \in {EstimateLocals(args)} :
            /\ ret.exc = "none"
            /\ ~FGt(args.discount_rate_percent, Zero) =>
                   v.crf = FDiv(FInt(1), FInt(v.n))
            /\ FGt(args.discount_rate_percent, Zero) =>
                   /\ CompoundDenominator(v.r, v.n) # Zero
                   /\ v.crf = CompoundFormula(v.r, v.n)

----------------------------------------------------------------------------
(* The order of a run of main (Spec)                                       *)

\* The calls of a run up to the report, in the order of the try block
PipelineOrder ==
    <<"get_nasa_ghi_climatology", "build_solar_profile",
      "estimate_pv_yield_and_financials", "classify_solar_resource",
      "reverse_geocode_city", "generate_pdf_report">>

Undetermined == Latitude(widgets).none \/ Longitude(widgets).none

NoReport == ~PdfGenerated /\ ~screen.download

\* C15: with latitude or longitude undetermined the run shows the error of
\* the coordinates and makes no call at all; the calls of a run are made in
\* the order fetch, profile, financials, classification, label lookup,
\* report, so that the report and the download exist only after the five
\* steps before them have returned; and a step that raises ends the run in
\* the error state, with the message shown and no report.
C15_ReportOnlyAfterAllSteps ==
    /\ Undetermined =>
           /\ calls = <<>>
           /\ NoReport
           /\ pc \in {"idle", "error"}
           /\ pc = "error" => screen.error = LatLonError
    /\ Len(calls) <= Len(PipelineOrder)
    /\ calls = SubSeq(PipelineOrder, 1, Len(calls))
    /\ (PdfGenerated \/ screen.download) =>
           /\ calls = PipelineOrder
           /\ ret.exc = "none"
           /\ screen.exc = "none"
           /\ screen.error = ""
           /\ pc \in {"download", "done"}
    /\ (calls # <<>> /\ ret.exc # "none") =>
           /\ pc = "error"
           /\ screen.error = ProcessingError
           /\ screen.exc = ret.exc
           /\ NoReport
    /\ (pc = "error" /\ ~Undetermined) =>
           /\ calls # <<>>
           /\ ret.exc \notin {"none", "pending"}
           /\ screen.error = ProcessingError

\* Map mode with no point clicked: the button has been pressed, the error is
\* shown and nothing has been called
C15_Witness ==
    /\ pc = "error"
    /\ widgets.input_mode = MapMode
    /\ widgets.last_clicked.none
    /\ screen.error = LatLonError
    /\ calls = <<>>
    /\ NoReport
====
